---- MODULE Spec2Model ----
(***************************************************************************)
(* Article Highlighter content script (src/content.js): the in-memory      *)
(* highlight collection, its localStorage entry, the page DOM with <mark>  *)
(* wrappers, the floating highlighter button and the note modal.           *)
(*                                                                         *)
(* DOM nodes are records: a text node [t |-> "text", d |-> chars] and an   *)
(* element [t |-> "el", tag, hid, lis, ch]; hid is data-highlight-id ("" if *)
(* absent), lis tells whether the click listener of wrapRangeWithMark is   *)
(* attached (cloneNode does not copy listeners), ch the child nodes.       *)
(* A node is addressed by its path: the 1-based child indices from <html>. *)
(* A boundary point is [p |-> path, o |-> offset] with a 0-based offset as *)
(* in the DOM Range interface.                                             *)
(*                                                                         *)
(* An operator named ...With takes the values its caller computed once     *)
(* (the locals of the function it belongs to) as parameters.               *)
(***************************************************************************)
EXTENDS Integers, Sequences, FiniteSets, TLC

\* ------------------------------------------------------------------ bounds
MaxCreates == 2      \* selection gestures are followed up to this many creations
MaxClock == 2        \* Date.now() reads at most this value
MaxTabCreates == 1   \* creations followed while a second tab is open

\* ------------------------------------------------------------------ text
WS == " "

Min(a, b) == IF a < b THEN a ELSE b

RECURSIVE TrimLeft(_)
TrimLeft(s) == IF s # <<>> /\ Head(s) = WS THEN TrimLeft(Tail(s)) ELSE s

RECURSIVE TrimRight(_)
TrimRight(s) ==
    IF s # <<>> /\ s[Len(s)] = WS THEN TrimRight(SubSeq(s, 1, Len(s) - 1)) ELSE s

\* String.prototype.trim
Trim(s) == TrimRight(TrimLeft(s))

\* String.prototype.includes: needle occurs in hay (the empty string always does)
Includes(hay, needle) ==
    \E i \in 0..(Len(hay) - Len(needle)) :
        SubSeq(hay, i + 1, i + Len(needle)) = needle

\* String.prototype.substring(0, n)
Substring0(s, n) == SubSeq(s, 1, Min(n, Len(s)))

RECURSIVE Flatten(_)
Flatten(ss) == IF ss = <<>> THEN <<>> ELSE Head(ss) \o Flatten(Tail(ss))

\* ------------------------------------------------------------------ DOM nodes
Text(d) == [t |-> "text", d |-> d]
Elem(tag, ch) == [t |-> "el", tag |-> tag, hid |-> "", lis |-> FALSE, ch |-> ch]
IsText(n) == n.t = "text"
IsElem(n) == n.t = "el"

\* Node.nodeName, already lower-cased as getXPathForElement does
NodeName(n) == IF IsText(n) THEN "#text" ELSE n.tag

\* number of children / characters: the length a boundary offset may not exceed
NodeLength(n) == IF IsText(n) THEN Len(n.d) ELSE Len(n.ch)

\* the Document node, parent of <html>: neither a text node nor an element
DocumentNode == [t |-> "doc"]
DocPath == <<-1>>

RECURSIVE NodeAt(_, _)
NodeAt(root, p) ==
    IF p = <<>> THEN root
    ELSE IF p = DocPath THEN DocumentNode
    ELSE NodeAt(root.ch[Head(p)], Tail(p))

RECURSIVE ReplaceAt(_, _, _)
\* the tree with the node at path p replaced by the node sequence ns
ReplaceAt(root, p, ns) ==
    LET i == Head(p) IN
    IF Len(p) = 1
    THEN [root EXCEPT !.ch = SubSeq(root.ch, 1, i - 1) \o ns
                              \o SubSeq(root.ch, i + 1, Len(root.ch))]
    ELSE [root EXCEPT !.ch[i] = ReplaceAt(root.ch[i], Tail(p), ns)]

RECURSIVE TextContent(_)
\* Node.textContent
TextContent(n) ==
    IF IsText(n) THEN n.d
    ELSE Flatten([i \in 1..Len(n.ch) |-> TextContent(n.ch[i])])

RECURSIVE AllPaths(_)
\* the paths of all nodes of the subtree, relative to its root
AllPaths(n) ==
    {<<>>} \cup
    IF IsText(n) THEN {}
    ELSE UNION {{<<i>> \o q : q \in AllPaths(n.ch[i])} : i \in 1..Len(n.ch)}

\* document order on paths (pre-order): lexicographic, a prefix first
RECURSIVE PathLess(_, _)
PathLess(p, q) ==
    IF p = <<>> THEN q # <<>>
    ELSE IF q = <<>> THEN FALSE
    ELSE IF Head(p) # Head(q) THEN Head(p) < Head(q)
    ELSE PathLess(Tail(p), Tail(q))

\* the first path of a non-empty set in document order
FirstPath(S) == CHOOSE p \in S : \A q \in S : q = p \/ PathLess(p, q)

\* boundary-point order of the DOM standard: (node, offset) lies before the
\* child with 0-based index offset
PointKey(pt) == [i \in 1..(Len(pt.p) + 1) |->
                    IF i <= Len(pt.p) THEN pt.p[i] - 1 ELSE pt.o]
PointBefore(a, b) == PathLess(PointKey(a), PointKey(b))
PointLE(a, b) == a = b \/ PointBefore(a, b)

IsPrefix(p, q) == Len(p) <= Len(q) /\ SubSeq(q, 1, Len(p)) = p

\* ------------------------------------------------------------------ PathLocator
\* a locator that writes the count of preceding same-tag siblings as the
\* position (0-based instead of 1-based)
StepForZeroBased(siblings, i) ==
    LET name == NodeName(siblings[i])
        index == Cardinality({j \in 1..(i - 1) : NodeName(siblings[j]) = name})
        hasFollowingSibling ==
            \E j \in (i + 1)..Len(siblings) : NodeName(siblings[j]) = name
    IN [tag |-> name, n |-> IF index > 0 \/ hasFollowingSibling THEN index ELSE 0]

\* index / hasFollowingSibling loops of getXPathForElement: the step for the
\* child at index i of parent (siblings are compared by nodeName)
StepFor(siblings, i) ==
    LET name == NodeName(siblings[i])
        index == Cardinality({j \in 1..(i - 1) : NodeName(siblings[j]) = name})
        hasFollowingSibling ==
            \E j \in (i + 1)..Len(siblings) : NodeName(siblings[j]) = name
    IN [tag |-> name, n |-> IF index > 0 \/ hasFollowingSibling THEN index + 1 ELSE 0]

\* getXPathForElement: the steps from <html> down to the element at path p;
\* <<>> stands for null (a non-element node). A step is [tag, n], n = 0 when
\* no positional suffix is written.
GetXPathForElement(root, p) ==
    IF ~IsElem(NodeAt(root, p)) THEN <<>>
    ELSE [k \in 1..(Len(p) + 1) |->
            IF k = 1 THEN StepFor(<<root>>, 1)
            ELSE StepFor(NodeAt(root, SubSeq(p, 1, k - 2)).ch, p[k - 1])]

\* the children of n selected by one location step tag or tag[n]
StepChildren(n, step) ==
    LET same == {i \in 1..Len(n.ch) : NodeName(n.ch[i]) = step.tag}
    IN IF step.n = 0 THEN same
       ELSE {i \in same : Cardinality({j \in same : j < i}) = step.n - 1}

RECURSIVE EvalSteps(_, _)
\* the node-set (relative paths) an XPath step sequence selects below n
EvalSteps(n, steps) ==
    IF steps = <<>> THEN {<<>>}
    ELSE IF IsText(n) THEN {}
    ELSE UNION {{<<i>> \o q : q \in EvalSteps(n.ch[i], Tail(steps))}
                  : i \in StepChildren(n, Head(steps))}

NullPath == <<0>>

\* document.evaluate(xpath, document, null, FIRST_ORDERED_NODE_TYPE).singleNodeValue
FirstOrNull(S) == IF S = {} THEN NullPath ELSE FirstPath(S)

XPathEvaluate(root, steps) ==
    FirstOrNull(IF steps # <<>> /\ Head(steps).tag = NodeName(root)
                   /\ Head(steps).n \in {0, 1}
                THEN EvalSteps(root, Tail(steps)) ELSE {})

\* ------------------------------------------------------------------ Range
Pt(p, o) == [p |-> p, o |-> o]
Parent(p) == SubSeq(p, 1, Len(p) - 1)
Last(p) == p[Len(p)]

\* optional bound of a slice of a subtree: none, or a point relative to it
NoB == [has |-> FALSE, p |-> <<>>, o |-> 0]
B(p, o) == [has |-> TRUE, p |-> p, o |-> o]

\* the bounds child i of an element inherits, and whether the slice covers it
StartIn(s, i) == s.has /\ s.p # <<>> /\ Head(s.p) = i
EndIn(e, i) == e.has /\ e.p # <<>> /\ Head(e.p) = i
AfterStart(s, i) == ~s.has \/ (IF s.p = <<>> THEN i > s.o ELSE i > Head(s.p))
BeforeEnd(e, i) == ~e.has \/ (IF e.p = <<>> THEN i <= e.o ELSE i < Head(e.p))
Sub(b) == B(Tail(b.p), b.o)

RECURSIVE SliceText(_, _, _)
\* the text of node n between the optional bounds s and e
SliceText(n, s, e) ==
    IF IsText(n)
    THEN SubSeq(n.d, (IF s.has THEN s.o ELSE 0) + 1, IF e.has THEN e.o ELSE Len(n.d))
    ELSE Flatten([i \in 1..Len(n.ch) |->
            IF StartIn(s, i) \/ EndIn(e, i)
            THEN IF StartIn(s, i) /\ ~(EndIn(e, i) \/ BeforeEnd(e, i)) THEN <<>>
                 ELSE IF EndIn(e, i) /\ ~(StartIn(s, i) \/ AfterStart(s, i)) THEN <<>>
                 ELSE SliceText(n.ch[i], IF StartIn(s, i) THEN Sub(s) ELSE NoB,
                                         IF EndIn(e, i) THEN Sub(e) ELSE NoB)
            ELSE IF AfterStart(s, i) /\ BeforeEnd(e, i) THEN TextContent(n.ch[i])
            ELSE <<>>])

\* the range around the only child of the Document node
DocSel == [s |-> [p |-> DocPath, o |-> 0], e |-> [p |-> DocPath, o |-> 1]]

\* Range.toString(): the text between the two boundary points
RangeToString(root, r) ==
    IF r = DocSel THEN TextContent(root)
    ELSE SliceText(root, B(r.s.p, r.s.o), B(r.e.p, r.e.o))

\* ------------------------------------------------------------------ Range mutation
\* Node.cloneNode(false) of an element: attributes are copied, listeners are not
CloneShallow(n) == [n EXCEPT !.lis = FALSE, !.ch = <<>>]

\* the parts of a sequence of [frag, keep] pairs, concatenated
Gather(each) ==
    [frag |-> Flatten([i \in 1..Len(each) |-> each[i].frag]),
     ch |-> Flatten([i \in 1..Len(each) |-> each[i].keep])]

\* a partially contained text node: the clone gets the selected substring,
\* the node loses it
ExtractText(c, from, to) ==
    [frag |-> <<Text(SubSeq(c.d, from + 1, to))>>,
     keep |-> <<Text(SubSeq(c.d, 1, from) \o SubSeq(c.d, to + 1, Len(c.d)))>>]

\* a partially contained element c, r what was extracted below it: the clone
\* gets the extracted part, c keeps the rest
ExtractElem(c, r) ==
    [frag |-> <<[CloneShallow(c) EXCEPT !.ch = r.frag]>>,
     keep |-> <<[c EXCEPT !.ch = r.ch]>>]

RECURSIVE ExtractSlice(_, _, _)
\* The DOM standard's "extract" below element n between the optional bounds:
\* frag is what goes into the fragment, ch the children n keeps. A partially
\* contained node is cloned and split, contained children are moved.
ExtractSlice(n, s, e) ==
    Gather([i \in 1..Len(n.ch) |->
        IF StartIn(s, i) \/ EndIn(e, i)
        THEN IF IsText(n.ch[i])
             THEN ExtractText(n.ch[i],
                              IF StartIn(s, i) THEN s.o ELSE 0,
                              IF EndIn(e, i) THEN e.o ELSE Len(n.ch[i].d))
             ELSE ExtractElem(n.ch[i],
                              ExtractSlice(n.ch[i],
                                           IF StartIn(s, i) THEN Sub(s) ELSE NoB,
                                           IF EndIn(e, i) THEN Sub(e) ELSE NoB))
        ELSE IF AfterStart(s, i) /\ BeforeEnd(e, i)
             THEN [frag |-> <<n.ch[i]>>, keep |-> <<>>]
             ELSE [frag |-> <<>>, keep |-> <<n.ch[i]>>]])

\* the longest common prefix of two paths: the common ancestor container when
\* neither boundary node is the other's ancestor
RECURSIVE CommonPrefix(_, _)
CommonPrefix(p, q) ==
    IF p = <<>> \/ q = <<>> \/ Head(p) # Head(q) THEN <<>>
    ELSE <<Head(p)>> \o CommonPrefix(Tail(p), Tail(q))

Drop(p, k) == SubSeq(p, k + 1, Len(p))

\* the tree with the node at path p replaced by node m (p may be the root)
SetAt(root, p, m) == IF p = <<>> THEN m ELSE ReplaceAt(root, p, <<m>>)

\* one text node tn holds the whole range: the substring is cut out, the node
\* is split at the start offset and mark goes between the two halves
WrapInText(tn, so, eo, mark) ==
    << Text(SubSeq(tn.d, 1, so)),
       [mark EXCEPT !.ch = IF so = eo THEN <<>> ELSE <<Text(SubSeq(tn.d, so + 1, eo))>>],
       Text(SubSeq(tn.d, eo + 1, Len(tn.d))) >>

\* the common ancestor can after the extraction x: mark, holding the fragment,
\* is inserted at child offset at (the collapsed range)
InsertMarkWith(can, x, at, mark) ==
    [can EXCEPT !.ch = SubSeq(x.ch, 1, at) \o <<[mark EXCEPT !.ch = x.frag]>>
                       \o SubSeq(x.ch, at + 1, Len(x.ch))]

\* the range from s to e, both relative to their common ancestor element can
WrapInElem(can, s, e, mark) ==
    InsertMarkWith(can,
                   IF s = e THEN [frag |-> <<>>, ch |-> can.ch]
                   ELSE ExtractSlice(can, s, e),
                   IF s.p = <<>> THEN s.o ELSE Head(s.p),
                   mark)

WrapAtWith(root, r, ca, mark) ==
    SetAt(root, ca, WrapInElem(NodeAt(root, ca), B(Drop(r.s.p, Len(ca)), r.s.o),
                               B(Drop(r.e.p, Len(ca)), r.e.o), mark))

\* Range.extractContents() followed by Range.insertNode(mark) with the
\* fragment appended to mark: what both range.surroundContents(mark) and the
\* fallback of wrapRangeWithMark do to the document. The range is r (s <= e).
ExtractAndInsert(root, r, mark) ==
    IF r.s.p = r.e.p /\ IsText(NodeAt(root, r.s.p))
    THEN ReplaceAt(root, r.s.p, WrapInText(NodeAt(root, r.s.p), r.s.o, r.e.o, mark))
    ELSE WrapAtWith(root, r, CommonPrefix(r.s.p, r.e.p), mark)

\* a node is partially contained in r: an inclusive ancestor of exactly one of
\* the two boundary nodes
PartiallyContained(r, p) == IsPrefix(p, r.s.p) # IsPrefix(p, r.e.p)

\* Range.surroundContents throws InvalidStateError when a non-Text node is
\* partially contained in the range
SurroundThrows(root, r) ==
    \E p \in AllPaths(root) : PartiallyContained(r, p) /\ ~IsText(NodeAt(root, p))

\* the <mark> element wrapRangeWithMark creates (lines 134-137)
NewMark(highlightId) ==
    [t |-> "el", tag |-> "mark", hid |-> highlightId, lis |-> TRUE, ch |-> <<>>]

\* wrapRangeWithMark: surroundContents (by the DOM standard: extract the
\* contents, insert the new parent, append the fragment to it), or on its
\* exception extractContents, appendChild and insertNode
WrapRangeWithMark(root, r, highlightId) ==
    IF SurroundThrows(root, r)
    THEN ExtractAndInsert(root, r, NewMark(highlightId))
    ELSE ExtractAndInsert(root, r, NewMark(highlightId))

\* ------------------------------------------------------------------ marker removal
RECURSIVE MergeText(_)
\* one level of Node.normalize(): empty text nodes go, adjacent ones merge
MergeText(ch) ==
    IF ch = <<>> THEN <<>>
    ELSE LET h == Head(ch)
             rest == MergeText(Tail(ch))
         IN IF IsText(h) /\ h.d = <<>> THEN rest
            ELSE IF IsText(h) /\ rest # <<>> /\ IsText(Head(rest))
                 THEN <<Text(h.d \o Head(rest).d)>> \o Tail(rest)
                 ELSE <<h>> \o rest

RECURSIVE Normalize(_)
\* Node.normalize() on the whole subtree
Normalize(n) ==
    IF IsText(n) THEN n
    ELSE [n EXCEPT !.ch = MergeText([i \in 1..Len(n.ch) |-> Normalize(n.ch[i])])]

IsMarkFor(n, highlightId) == IsElem(n) /\ n.tag = "mark" /\ n.hid = highlightId

\* the paths of the <mark> elements carrying highlightId
MarksFor(root, highlightId) ==
    {p \in AllPaths(root) : IsMarkFor(NodeAt(root, p), highlightId)}

\* document.querySelector(`mark[data-highlight-id="..."]`): the first in
\* document order, NullPath when there is none
QueryMark(root, highlightId) == FirstOrNull(MarksFor(root, highlightId))

\* parent.normalize() for the parent at path pp
NormalizeAt(root, pp) == SetAt(root, pp, Normalize(NodeAt(root, pp)))

\* a removal that drops the mark with what it holds
RemoveMarkDropping(root, mp) ==
    IF mp = NullPath THEN root
    ELSE NormalizeAt(ReplaceAt(root, mp, <<>>), Parent(mp))

\* lines 321-325 of deleteHighlight, mp the mark querySelector found
RemoveMarkWith(root, mp) ==
    IF mp = NullPath THEN root
    ELSE NormalizeAt(ReplaceAt(root, mp, <<Text(TextContent(NodeAt(root, mp)))>>),
                     Parent(mp))

\* lines 320-325 of deleteHighlight: the mark is replaced by a text node with
\* its textContent and the parent is normalized
RemoveMark(root, highlightId) == RemoveMarkWith(root, QueryMark(root, highlightId))

\* ------------------------------------------------------------------ RangeCodec
MaxContext == 50

SerializeWith(root, r, sText, eText, startXPath, endXPath) ==
    IF startXPath = <<>> \/ endXPath = <<>> THEN [null |-> TRUE]
    ELSE [null |-> FALSE,
          startXPath |-> startXPath,
          startOffset |-> r.s.o,
          startChildIndex |-> IF sText THEN Last(r.s.p) - 1 ELSE -1,
          endXPath |-> endXPath,
          endOffset |-> r.e.o,
          endChildIndex |-> IF eText THEN Last(r.e.p) - 1 ELSE -1,
          contextText |-> Substring0(RangeToString(root, r), MaxContext)]

\* the element whose path stands for a boundary container: the parent of a
\* text node, the container itself otherwise
OwnerOf(root, q) == IF IsText(NodeAt(root, q)) THEN Parent(q) ELSE q

\* serializeRange: [null |-> TRUE] when a boundary's owning element has no path
SerializeRange(root, r) ==
    SerializeWith(root, r, IsText(NodeAt(root, r.s.p)), IsText(NodeAt(root, r.e.p)),
                  GetXPathForElement(root, OwnerOf(root, r.s.p)),
                  GetXPathForElement(root, OwnerOf(root, r.e.p)))

\* a decoder that reads the child after the recorded one
BoundaryNodeShifted(root, parent, childIndex) ==
    IF parent = NullPath THEN NullPath
    ELSE IF childIndex > -1
         THEN IF childIndex + 1 < Len(NodeAt(root, parent).ch)
              THEN parent \o <<childIndex + 2>> ELSE NullPath
         ELSE parent

\* lines 423-424: parent.childNodes[index] (NullPath when undefined), or the
\* parent itself for index -1
BoundaryNode(root, parent, childIndex) ==
    IF parent = NullPath THEN NullPath
    ELSE IF childIndex > -1
         THEN IF childIndex < Len(NodeAt(root, parent).ch)
              THEN parent \o <<childIndex + 1>> ELSE NullPath
         ELSE parent

\* range.setStart then range.setEnd on a fresh range: an end before the start
\* collapses the range onto the end point
SetStartEnd(s, e) == IF PointBefore(e, s) THEN [s |-> e, e |-> e] ELSE [s |-> s, e |-> e]

\* a decode that falls back on the resolved element when the child is missing
DeserializeOntoParent(root, savedRange, startNodeParent, endNodeParent, startNode, endNode) ==
    IF startNodeParent = NullPath \/ endNodeParent = NullPath THEN [k |-> "null"]
    ELSE [k |-> "range",
          r |-> SetStartEnd(Pt(IF startNode = NullPath THEN startNodeParent ELSE startNode, 0),
                            Pt(IF endNode = NullPath THEN endNodeParent ELSE endNode, 0))]

\* lines 417-434 of deserializeRange
DeserializeWith(root, savedRange, startNodeParent, endNodeParent, startNode, endNode) ==
    IF startNodeParent = NullPath \/ endNodeParent = NullPath THEN [k |-> "null"]
    ELSE IF startNode = NullPath \/ endNode = NullPath THEN [k |-> "null"]
    ELSE IF savedRange.startOffset > NodeLength(NodeAt(root, startNode))
            \/ savedRange.endOffset > NodeLength(NodeAt(root, endNode))
         THEN [k |-> "throw"]
         ELSE [k |-> "range",
               r |-> SetStartEnd(Pt(startNode, savedRange.startOffset),
                                 Pt(endNode, savedRange.endOffset))]

DeserializeAt(root, savedRange, startNodeParent, endNodeParent) ==
    DeserializeWith(root, savedRange, startNodeParent, endNodeParent,
                    BoundaryNode(root, startNodeParent, savedRange.startChildIndex),
                    BoundaryNode(root, endNodeParent, savedRange.endChildIndex))

\* deserializeRange: k = "null" (a warning and null), "throw" (setStart or
\* setEnd raises IndexSizeError: offset beyond the node's length) or "range"
DeserializeRange(root, savedRange) ==
    DeserializeAt(root, savedRange, XPathEvaluate(root, savedRange.startXPath),
                  XPathEvaluate(root, savedRange.endXPath))

\* ------------------------------------------------------------------ reapplyHighlights
\* the verification of lines 114-116
TextMatches(currentText, savedText) ==
    Includes(Trim(currentText), Trim(savedText))
    \/ Includes(Trim(savedText), Trim(currentText))

VerifyAndWrap(root, highlight, range, currentText) ==
    IF TextMatches(currentText, highlight.text)
    THEN [dom |-> WrapRangeWithMark(root, range, highlight.id),
          how |-> "wrapped", cur |-> currentText]
    ELSE [dom |-> root, how |-> "mismatch", cur |-> currentText]

ReapplyWith(root, highlight, d) ==
    IF d.k = "null" THEN [dom |-> root, how |-> "null", cur |-> <<>>]
    ELSE IF d.k = "throw" THEN [dom |-> root, how |-> "caught", cur |-> <<>>]
    ELSE VerifyAndWrap(root, highlight, d.r, RangeToString(root, d.r))

\* one iteration of the forEach of reapplyHighlights on the document root:
\* the document afterwards and what happened ("wrapped", "mismatch", "null",
\* "caught": an exception reached the catch of line 122; a record without
\* range or text raises a TypeError there)
ReapplyOne(root, highlight) ==
    IF highlight.shape # "ok" THEN [dom |-> root, how |-> "caught", cur |-> <<>>]
    ELSE ReapplyWith(root, highlight, DeserializeRange(root, highlight.range))

LogEntry(highlight, one) ==
    [how |-> one.how, cur |-> one.cur, id |-> highlight.id, text |-> highlight.text]

RECURSIVE ReapplyFrom(_, _, _)
\* a loop without the per-record try/catch and null check: the first record
\* that is not wrapped ends it
ReapplyUntilFailure(hs, log, one) ==
    IF one.how = "wrapped"
    THEN ReapplyFrom(one.dom, Tail(hs), Append(log, LogEntry(Head(hs), one)))
    ELSE [dom |-> one.dom, log |-> Append(log, LogEntry(Head(hs), one))]

ReapplyNext(hs, log, one) ==
    ReapplyFrom(one.dom, Tail(hs), Append(log, LogEntry(Head(hs), one)))

ReapplyFrom(root, hs, log) ==
    IF hs = <<>> THEN [dom |-> root, log |-> log]
    ELSE ReapplyNext(hs, log, ReapplyOne(root, Head(hs)))

\* reapplyHighlights over the whole collection, in storage order; log[i] tells
\* what happened to highlights[i]: how it ended, the text of the decoded range
\* (cur), and the record's id and text
ReapplyHighlights(root, hs) == ReapplyFrom(root, hs, <<>>)

\* ------------------------------------------------------------------ pages
\* the article as served: <p>a b</p><p></p>; PageEdited is the same address
\* after the site dropped the blank of the first paragraph
PageOriginal == <<Elem("p", <<Text(<<"a", " ", "b">>)>>), Elem("p", <<>>)>>
PageEdited == <<Elem("p", <<Text(<<"a", "b">>)>>), Elem("p", <<>>)>>
Pages == <<PageOriginal, PageEdited>>

\* the document once lines 9-10 have appended the highlighter button and the
\* note modal (two <div>) to <body>
Document(content) ==
    Elem("html", <<Elem("body", content \o <<Elem("div", <<>>), Elem("div", <<>>)>>)>>)

\* ------------------------------------------------------------------ storage
\* localStorage.getItem(pageKey): absent (null), the empty string, a string
\* JSON.parse rejects, or JSON text; JSON text is kept as the value it denotes:
\* an array of records, or a value that is no array
Absent == [k |-> "absent"]
EmptyString == [k |-> "empty"]
Corrupt == [k |-> "corrupt"]
JArray(v) == [k |-> "array", v |-> v]
JObject == [k |-> "object", v |-> <<>>]
JsonText(j) == [k |-> "json", j |-> j]

\* JSON.stringify
Stringify(value) == JsonText(value)
\* JSON.parse: [ok |-> FALSE] is the SyntaxError
Parse(item) == IF item.k = "json" THEN [ok |-> TRUE, value |-> item.j]
               ELSE [ok |-> FALSE, value |-> JObject]

NoId == -1
OldId == 0
NoRange == [null |-> TRUE]

\* a stored entry of another shape: an object without the range field, or
\* without the text field (it has a range that resolves)
EntryNoRange ==
    [shape |-> "noRange", id |-> OldId, text |-> <<"a">>, note |-> "",
     createdAt |-> OldId, range |-> NoRange]
EntryNoText ==
    [shape |-> "noText", id |-> OldId, text |-> <<>>, note |-> "", createdAt |-> OldId,
     range |-> SerializeRange(Document(PageOriginal),
                              [s |-> Pt(<<1, 1, 1>>, 0), e |-> Pt(<<1, 1, 1>>, 1)])]

\* what the page key may hold before the first page view
InitialStored ==
    {Absent, EmptyString, Corrupt, JsonText(JObject),
     JsonText(JArray(<<EntryNoRange>>)), JsonText(JArray(<<EntryNoText>>))}

Notes == {"", "check source"}

\* ------------------------------------------------------------------ state
VARIABLES
    highlights,          \* let highlights (line 5): the value it holds
    stored,              \* localStorage entry under pageKey
    dom,                 \* the document, <html> at the root
    page,                \* index in Pages of the article version being shown
    pageChanged,         \* the article changed at some earlier page load
    script,              \* "none": no page view yet; "running": top level done,
                         \* listeners registered; "aborted": top level threw
    selection,           \* window.getSelection(): a range, or NoSel
    highlighterShown,    \* highlighterEl.style.display = 'block'
    modalShown,          \* noteModalEl.style.display = 'flex'
    currentHighlightId,  \* noteModalEl.dataset.currentHighlightId
    now,                 \* the latest reading of Date.now(), 0 before the first
    created,             \* how many highlights have been created so far
    loadLog,             \* what reapplyHighlights did to each record, last load
    other                \* a second tab on the same page key: its let highlights
                         \* and the item its loadHighlights read; NotOpen while
                         \* there is none

vars == <<highlights, stored, dom, page, pageChanged, script, selection,
          highlighterShown, modalShown, currentHighlightId, now, created,
          loadLog, other>>

NoSel == [s |-> Pt(<<>>, 0), e |-> Pt(<<>>, 0)]

NotOpen == [k |-> "none"]

\* the records of the collection (highlights is an array whenever the script runs)
Hs == highlights.v

\* ------------------------------------------------------------------ user selections
\* the nodes of the article: below <body>, the two <div> of the script excluded
ContentPaths(root) ==
    {q \in AllPaths(root) :
        /\ Len(q) >= 2
        /\ q[1] = 1
        /\ q[2] <= Len(root.ch[1].ch) - 2}

PointsOf(root, q) == {Pt(q, o) : o \in 0..NodeLength(NodeAt(root, q))}

TextPoints(root) ==
    UNION {PointsOf(root, q) : q \in {c \in ContentPaths(root) : IsText(NodeAt(root, c))}}

\* the ranges a selection gesture produces: from any offset of a text node to
\* any later offset of a text node (a drag), or a run of children of one
\* element of the article (both boundaries on the element itself)
SelRanges(root) ==
    {r \in [s : TextPoints(root), e : TextPoints(root)] : PointBefore(r.s, r.e)}
    \cup UNION {{r \in [s : PointsOf(root, q), e : PointsOf(root, q)] : r.s.o < r.e.o}
                 : q \in {c \in ContentPaths(root) : IsElem(NodeAt(root, c))}}

\* ------------------------------------------------------------------ store operations
\* saveHighlights
\* the records of others whose id is not in hs
RECURSIVE NotIn(_, _)
NotIn(hs, others) ==
    IF others = <<>> THEN <<>>
    ELSE IF \E i \in 1..Len(hs) : hs[i].id = Head(others).id
         THEN NotIn(hs, Tail(others))
         ELSE <<Head(others)>> \o NotIn(hs, Tail(others))

\* a save that reads the item again and keeps the records it finds there
SaveHighlightsMerged(value) ==
    IF value.k = "array" /\ Parse(stored).ok /\ Parse(stored).value.k = "array"
    THEN Stringify(JArray(value.v \o NotIn(value.v, Parse(stored).value.v)))
    ELSE Stringify(value)

\* saveHighlights: the item written under pageKey
SaveHighlights(value) == Stringify(value)

\* openNoteModal: [shown, id] of the modal afterwards
OpenNoteModal(hs, shown, id, highlightId) ==
    IF \E i \in 1..Len(hs) : hs[i].id = highlightId
    THEN [shown |-> TRUE, id |-> highlightId]
    ELSE [shown |-> shown, id |-> id]

\* Array.prototype.findIndex(h => h.id === highlightId), 0 for -1
FindIndex(hs, highlightId) ==
    IF \E i \in 1..Len(hs) : hs[i].id = highlightId
    THEN CHOOSE i \in 1..Len(hs) :
            hs[i].id = highlightId /\ \A j \in 1..(i - 1) : hs[j].id # highlightId
    ELSE 0

RECURSIVE Filter(_, _)
\* highlights.filter(h => h.id !== highlightId)
Filter(hs, highlightId) ==
    IF hs = <<>> THEN <<>>
    ELSE IF Head(hs).id # highlightId THEN <<Head(hs)>> \o Filter(Tail(hs), highlightId)
    ELSE Filter(Tail(hs), highlightId)

\* the collection hs becomes the module's array and is saved
Saved(hs) == [hs |-> hs, stored |-> SaveHighlights(JArray(hs))]

\* an update that changes the record in memory only
UpdateNoteUnsaved(hs, st, index, note) ==
    IF index # 0 THEN [hs |-> [hs EXCEPT ![index].note = note], stored |-> st]
    ELSE [hs |-> hs, stored |-> st]

\* an update that saves whether or not it found the record
UpdateNoteAlwaysSaves(hs, st, index, note) ==
    IF index # 0 THEN Saved([hs EXCEPT ![index].note = note])
    ELSE Saved(hs)

\* an update that also stamps the record with a later time
UpdateNoteRestamped(hs, st, index, note) ==
    IF index # 0
    THEN Saved([hs EXCEPT ![index].note = note, ![index].createdAt = @ + 1])
    ELSE [hs |-> hs, stored |-> st]

\* lines 303-307 of updateNote, index the result of findIndex
UpdateNoteAt(hs, st, index, note) ==
    IF index # 0 THEN Saved([hs EXCEPT ![index].note = note])
    ELSE [hs |-> hs, stored |-> st]

\* an update that adds a record for an id it does not find
UpdateNoteUpsert(hs, st, highlightId, note) ==
    IF FindIndex(hs, highlightId) # 0
    THEN UpdateNoteAt(hs, st, FindIndex(hs, highlightId), note)
    ELSE Saved(Append(hs, [shape |-> "ok", id |-> highlightId, text |-> <<>>,
                           note |-> note, createdAt |-> highlightId, range |-> NoRange]))

\* updateNote: the collection and the stored value afterwards
UpdateNote(hs, st, highlightId, note) ==
    UpdateNoteAt(hs, st, FindIndex(hs, highlightId), note)

\* deleteHighlight: the collection, the stored value and the document afterwards
DeleteHighlight(hs, root, highlightId) ==
    [hs |-> Filter(hs, highlightId),
     stored |-> SaveHighlights(JArray(Filter(hs, highlightId))),
     dom |-> RemoveMark(root, highlightId)]

\* ------------------------------------------------------------------ actions
InitWith(initialStored) ==
    /\ highlights = JArray(<<>>)
    /\ stored \in initialStored
    /\ dom = Document(PageOriginal)
    /\ page = 1
    /\ pageChanged = FALSE
    /\ script = "none"
    /\ selection = NoSel
    /\ highlighterShown = FALSE
    /\ modalShown = FALSE
    /\ currentHighlightId = NoId
    /\ now = 0
    /\ created = 0
    /\ loadLog = <<>>
    /\ other = NotOpen

\* a first visit: nothing under the page key
Init == InitWith({Absent})

\* the page key holds whatever an earlier version or the page itself left there
InitStored == InitWith(InitialStored)

Loaded(value, re) == [hl |-> value, dom |-> re.dom, threw |-> FALSE, log |-> re.log]

LoadParsed(root, parsed) ==
    IF ~parsed.ok
    THEN [hl |-> JArray(<<>>), dom |-> root, threw |-> TRUE, log |-> <<>>]
    ELSE IF parsed.value.k # "array"
         THEN \* highlights.forEach is not a function
              [hl |-> parsed.value, dom |-> root, threw |-> TRUE, log |-> <<>>]
         ELSE Loaded(parsed.value, ReapplyHighlights(root, parsed.value.v))

\* loadHighlights on a fresh document: the collection, the document, whether
\* an exception escaped, and the log of reapplyHighlights
LoadHighlights(root, savedHighlights) ==
    IF savedHighlights.k \in {"absent", "empty"}
    THEN [hl |-> JArray(<<>>), dom |-> root, threw |-> FALSE, log |-> <<>>]
    ELSE LoadParsed(root, Parse(savedHighlights))

PageLoadWith(pg, ld) ==
    /\ highlights' = ld.hl
    /\ dom' = ld.dom
    /\ loadLog' = ld.log
    /\ script' = IF ld.threw THEN "aborted" ELSE "running"
    /\ page' = pg
    /\ pageChanged' = (pageChanged \/ (pg # page /\ script # "none"))
    /\ selection' = NoSel
    /\ highlighterShown' = FALSE
    /\ modalShown' = FALSE
    /\ currentHighlightId' = NoId
    /\ UNCHANGED <<other, stored, now, created>>

\* A page view: the content script runs top to bottom (lines 5-26) on the
\* article as it is now served, version pg.
PageLoad(pg) == PageLoadWith(pg, LoadHighlights(Document(Pages[pg]), stored))

\* what Date.now() may read next: the wall clock does not go back, and two
\* readings may be equal
ClockReadings == {t \in 1..MaxClock : t >= now /\ t <= now + 1}

\* a handler that looks at the selection only, not at where the release is
HandleTextSelectionAnywhere(inside, r) ==
    /\ modalShown => inside
    /\ (inside /\ ~modalShown) => \E q \in AllPaths(dom) : NodeName(NodeAt(dom, q)) = "mark"
    /\ IF Len(Trim(RangeToString(dom, r))) > 0
       THEN selection' = r /\ highlighterShown' = TRUE
       ELSE selection' = NoSel /\ highlighterShown' = FALSE
    /\ UNCHANGED <<other, highlights, stored, dom, page, pageChanged, script,
                   modalShown, currentHighlightId, now, created, loadLog>>

\* mouseup on the body after a selection gesture: handleTextSelection.
\* inside = the release is inside a mark or the modal (line 55).
HandleTextSelection(inside, r) ==
    /\ modalShown => inside
    /\ (inside /\ ~modalShown) => \E q \in AllPaths(dom) : NodeName(NodeAt(dom, q)) = "mark"
    /\ IF ~inside /\ Len(Trim(RangeToString(dom, r))) > 0
       THEN selection' = r /\ highlighterShown' = TRUE
       ELSE selection' = NoSel /\ highlighterShown' = FALSE
    /\ UNCHANGED <<other, highlights, stored, dom, page, pageChanged, script,
                   modalShown, currentHighlightId, now, created, loadLog>>

\* the gestures that end in a mouseup: a drag over the article, a click that
\* leaves no selection, a release inside a mark or the modal
MouseUp ==
    /\ script = "running"
    /\ created < MaxCreates
    /\ \E inside \in BOOLEAN, r \in SelRanges(dom) \cup {NoSel} :
          HandleTextSelection(inside, r)

NoAlert == ""
AlertFailed ==
    "Highlighting failed. The selected content might be in a complex or protected element."

\* a create that reports nothing
CreateAlertSilent(text, serializedRange) == NoAlert

\* the message createHighlight passes to alert(), NoAlert when it shows none
CreateAlert(text, serializedRange) ==
    IF Len(Trim(text)) = 0 THEN NoAlert
    ELSE IF serializedRange.null THEN AlertFailed
    ELSE NoAlert

\* a record that keeps the selected text without its surrounding whitespace
NewHighlightTrimmed(t, text, serializedRange) ==
    [shape |-> "ok", id |-> t, text |-> Trim(text), note |-> "", createdAt |-> t,
     range |-> serializedRange]

\* the record of lines 85-91
NewHighlight(t, text, serializedRange) ==
    [shape |-> "ok", id |-> t, text |-> text, note |-> "", createdAt |-> t,
     range |-> serializedRange]

\* what createHighlight leaves behind when it returns early (lines 75 and
\* 80-83): nothing changes, alert is the message it showed
CreateNothing(alert) ==
    [done |-> FALSE, alert |-> alert, highlights |-> highlights, dom |-> dom,
     stored |-> stored, selection |-> selection, highlighterShown |-> highlighterShown,
     modalShown |-> modalShown, currentHighlightId |-> currentHighlightId]

\* lines 92-102 of createHighlight: hs2 is the collection after the push, m the
\* modal after openNoteModal
CreateDone(t, hs2, m) ==
    [done |-> TRUE, alert |-> NoAlert, highlights |-> JArray(hs2),
     dom |-> WrapRangeWithMark(dom, selection, t),
     stored |-> SaveHighlights(JArray(hs2)), selection |-> NoSel,
     highlighterShown |-> FALSE, modalShown |-> m.shown, currentHighlightId |-> m.id]

CreatePush(t, hs2) == CreateDone(t, hs2, OpenNoteModal(hs2, modalShown, currentHighlightId, t))

\* a create that puts the new record first
CreateUnshift(t, text, serializedRange) ==
    IF Len(Trim(text)) = 0 \/ serializedRange.null
    THEN CreateNothing(CreateAlert(text, serializedRange))
    ELSE CreatePush(t, <<NewHighlight(t, text, serializedRange)>> \o Hs)

\* a create without the check of line 75
CreateWithoutBlankCheck(t, text, serializedRange) ==
    IF serializedRange.null
    THEN CreateNothing(CreateAlert(text, serializedRange))
    ELSE CreatePush(t, Append(Hs, NewHighlight(t, text, serializedRange)))

CreateWith(t, text, serializedRange) ==
    IF Len(Trim(text)) = 0 \/ serializedRange.null
    THEN CreateNothing(CreateAlert(text, serializedRange))
    ELSE CreatePush(t, Append(Hs, NewHighlight(t, text, serializedRange)))

\* createHighlight with the clock reading t on the current selection: what it
\* leaves in each variable it touches, whether it created a record, and the
\* alert it showed
CreateOutcome(t) ==
    CreateWith(t, RangeToString(dom, selection), SerializeRange(dom, selection))

CreateBecomes(t, o) ==
    /\ highlights' = o.highlights
    /\ dom' = o.dom
    /\ stored' = o.stored
    /\ selection' = o.selection
    /\ highlighterShown' = o.highlighterShown
    /\ modalShown' = o.modalShown
    /\ currentHighlightId' = o.currentHighlightId
    /\ created' = IF o.done THEN created + 1 ELSE created
    /\ now' = IF o.done THEN t ELSE now
    /\ UNCHANGED <<other, page, pageChanged, script, loadLog>>

\* mousedown on the highlighter button: createHighlight, the clock reading t
CreateHighlight(t) ==
    /\ script = "running"
    /\ highlighterShown
    /\ CreateBecomes(t, CreateOutcome(t))

\* the marks whose click listener runs for a click on the mark at path q, the
\* target first (the event bubbles): cloned marks carry no listener
RECURSIVE ClickChain(_, _)
ClickChain(root, q) ==
    IF q = <<>> THEN <<>>
    ELSE (IF NodeName(NodeAt(root, q)) = "mark" /\ NodeAt(root, q).lis
          THEN <<NodeAt(root, q).hid>> ELSE <<>>) \o ClickChain(root, Parent(q))

RECURSIVE OpenAll(_, _, _, _)
OpenAll(hs, shown, id, ids) ==
    IF ids = <<>> THEN [shown |-> shown, id |-> id]
    ELSE OpenAll(hs, OpenNoteModal(hs, shown, id, Head(ids)).shown,
                 OpenNoteModal(hs, shown, id, Head(ids)).id, Tail(ids))

ModalBecomes(m) == modalShown' = m.shown /\ currentHighlightId' = m.id

\* click on a mark (its mouseup has hidden the button): openNoteModal
MarkClick(q) ==
    /\ script = "running"
    /\ ~modalShown /\ ~highlighterShown
    /\ q \in AllPaths(dom)
    /\ NodeName(NodeAt(dom, q)) = "mark"
    /\ TextContent(NodeAt(dom, q)) # <<>>
    /\ ModalBecomes(OpenAll(Hs, modalShown, currentHighlightId, ClickChain(dom, q)))
    /\ UNCHANGED <<other, highlights, stored, dom, page, pageChanged, script, selection,
                   highlighterShown, now, created, loadLog>>

\* a close that hides the modal and keeps the id in its dataset
CloseModalKeepsId ==
    /\ modalShown
    /\ modalShown' = FALSE
    /\ UNCHANGED <<other, highlights, stored, dom, page, pageChanged, script, selection,
                   highlighterShown, currentHighlightId, now, created, loadLog>>

\* Cancel button or a click on the backdrop: closeModal
CloseModal ==
    /\ modalShown
    /\ modalShown' = FALSE
    /\ currentHighlightId' = NoId
    /\ UNCHANGED <<other, highlights, stored, dom, page, pageChanged, script, selection,
                   highlighterShown, now, created, loadLog>>

StoreBecomes(u) == highlights' = JArray(u.hs) /\ stored' = u.stored

\* Save button of the modal: saveNote with the editor holding noteText
SaveNote(noteText) ==
    /\ modalShown
    /\ StoreBecomes(UpdateNote(Hs, stored, currentHighlightId, noteText))
    /\ modalShown' = FALSE
    /\ currentHighlightId' = NoId
    /\ UNCHANGED <<other, dom, page, pageChanged, script, selection, highlighterShown,
                   now, created, loadLog>>

Deleted(d) == highlights' = JArray(d.hs) /\ stored' = d.stored /\ dom' = d.dom

\* Delete button of the modal: deleteCurrentHighlight
DeleteCurrentHighlight ==
    /\ modalShown
    /\ Deleted(DeleteHighlight(Hs, dom, currentHighlightId))
    /\ modalShown' = FALSE
    /\ currentHighlightId' = NoId
    /\ UNCHANGED <<other, page, pageChanged, script, selection, highlighterShown,
                   now, created, loadLog>>

\* the ids a popup message may carry: any reading of the clock, or an old id
MessageIds == OldId..MaxClock

\* a message of the popup: request.action, request.highlightId, request.note
Request(action, highlightId, note) ==
    [action |-> action, highlightId |-> highlightId, note |-> note]

\* the messages followed: those of the popup, and one of no known action
Requests ==
    {Request(a, NoId, "") : a \in {"getHighlights", "exportToPDF", "exportHighlightsOnly", "ping"}}
    \cup {Request(a, id, "") : a \in {"deleteHighlight", "goToHighlight"}, id \in MessageIds}
    \cup {Request("updateNote", id, n) : id \in MessageIds, n \in Notes}

\* what sendResponse is called with, NoResponse when it is not called
NoResponse == [k |-> "none"]
Success == [success |-> TRUE]

\* what a message leaves behind: the collection, the stored value, the
\* document, and the response
Handled(hs, st, root, response) ==
    [highlights |-> JArray(hs), stored |-> st, dom |-> root, response |-> response]

RECURSIVE InsertByCreatedAt(_, _)
\* h goes after every record that is not later than it
InsertByCreatedAt(h, sorted) ==
    IF sorted = <<>> THEN <<h>>
    ELSE IF h.createdAt < Head(sorted).createdAt THEN <<h>> \o sorted
    ELSE <<Head(sorted)>> \o InsertByCreatedAt(h, Tail(sorted))

RECURSIVE SortByCreatedAt(_)
\* the popup's highlights.sort((a, b) => new Date(a.createdAt) - new
\* Date(b.createdAt)) on the array getHighlights answered with; the sort is
\* stable
SortByCreatedAt(hs) ==
    IF hs = <<>> THEN <<>>
    ELSE InsertByCreatedAt(hs[Len(hs)], SortByCreatedAt(SubSeq(hs, 1, Len(hs) - 1)))

AlertNoHighlights == "There are no highlights to export."

\* lines 504-513: one block per record in the order of the collection, the
\* text quoted and the note after it; an empty note gets no paragraph
ExportBlocks(hs) == [i \in 1..Len(hs) |-> [quote |-> hs[i].text, note |-> hs[i].note]]

\* an export that opens the window whatever the collection holds
ExportWithoutCheck(hs) == [alert |-> NoAlert, opened |-> TRUE, document |-> ExportBlocks(hs)]

\* exportHighlightsOnly: the alert it shows, whether it opens the print
\* window, and the blocks of the document it writes there
ExportHighlightsOnly(hs) ==
    IF Len(hs) = 0
    THEN [alert |-> AlertNoHighlights, opened |-> FALSE, document |-> <<>>]
    ELSE [alert |-> NoAlert, opened |-> TRUE, document |-> ExportBlocks(hs)]

\* a handler that reports whether the id named a record
HandleMessagesChecked(request) ==
    IF request.action = "getHighlights"
    THEN Handled(Hs, stored, dom, [highlights |-> highlights])
    ELSE IF request.action = "deleteHighlight"
    THEN Handled(DeleteHighlight(Hs, dom, request.highlightId).hs,
                 DeleteHighlight(Hs, dom, request.highlightId).stored,
                 DeleteHighlight(Hs, dom, request.highlightId).dom,
                 [success |-> \E i \in 1..Len(Hs) : Hs[i].id = request.highlightId])
    ELSE IF request.action = "updateNote"
    THEN Handled(UpdateNote(Hs, stored, request.highlightId, request.note).hs,
                 UpdateNote(Hs, stored, request.highlightId, request.note).stored,
                 dom,
                 [success |-> \E i \in 1..Len(Hs) : Hs[i].id = request.highlightId])
    ELSE Handled(Hs, stored, dom, NoResponse)

\* handleMessages: goToHighlight scrolls, prepareForExport and
\* exportHighlightsOnly write into a new window; none of them assigns the
\* collection, the page key or the document
HandleMessages(request) ==
    IF request.action = "getHighlights"
    THEN Handled(Hs, stored, dom, [highlights |-> highlights])
    ELSE IF request.action = "deleteHighlight"
    THEN Handled(DeleteHighlight(Hs, dom, request.highlightId).hs,
                 DeleteHighlight(Hs, dom, request.highlightId).stored,
                 DeleteHighlight(Hs, dom, request.highlightId).dom, Success)
    ELSE IF request.action = "updateNote"
    THEN Handled(UpdateNote(Hs, stored, request.highlightId, request.note).hs,
                 UpdateNote(Hs, stored, request.highlightId, request.note).stored,
                 dom, Success)
    ELSE IF request.action = "exportHighlightsOnly"
    THEN [highlights |-> highlights, stored |-> stored, dom |-> dom,
          response |-> NoResponse, export |-> ExportHighlightsOnly(Hs)]
    ELSE Handled(Hs, stored, dom, NoResponse)

\* The DOM adjusts a live selection when nodes are replaced; the selection is
\* dropped here and made again by the next gesture.
MessageBecomes(o) ==
    /\ highlights' = o.highlights
    /\ stored' = o.stored
    /\ dom' = o.dom
    /\ IF dom' = dom
       THEN UNCHANGED <<selection, highlighterShown>>
       ELSE selection' = NoSel /\ highlighterShown' = FALSE
    /\ UNCHANGED <<other, page, pageChanged, script, modalShown, currentHighlightId,
                   now, created, loadLog>>

\* a message arrives at the listener of line 26
OnMessage(request) ==
    /\ script = "running"
    /\ MessageBecomes(HandleMessages(request))

\* handleMessages, action 'deleteHighlight'
MsgDeleteHighlight(highlightId) == OnMessage(Request("deleteHighlight", highlightId, ""))

\* handleMessages, action 'updateNote'
MsgUpdateNote(highlightId, note) == OnMessage(Request("updateNote", highlightId, note))

\* A second tab opens the same page: its content script runs loadHighlights on
\* its own document. That document is not kept; what the tab holds of the
\* shared state is its let highlights.
OtherLoad ==
    /\ script = "running"
    /\ other = NotOpen
    /\ other' = [highlights |-> LoadHighlights(Document(Pages[page]), stored).hl,
                 read |-> stored]
    /\ UNCHANGED <<highlights, stored, dom, page, pageChanged, script, selection,
                   highlighterShown, modalShown, currentHighlightId, now, created,
                   loadLog>>

OtherBecomes(u) ==
    /\ other' = [other EXCEPT !.highlights = JArray(u.hs)]
    /\ stored' = u.stored
    /\ UNCHANGED <<highlights, dom, page, pageChanged, script, selection,
                   highlighterShown, modalShown, currentHighlightId, now, created,
                   loadLog>>

\* updateNote in the second tab
OtherUpdateNote(highlightId, note) ==
    /\ other # NotOpen
    /\ OtherBecomes(UpdateNote(other.highlights.v, stored, highlightId, note))

\* deleteHighlight in the second tab
OtherDeleteHighlight(highlightId) ==
    /\ other # NotOpen
    /\ OtherBecomes(Saved(Filter(other.highlights.v, highlightId)))

\* The selection changes with no pointer release (Shift+Arrow, select all,
\* the Selection API): no handler runs, the button stays as it is. Followed
\* while the button is shown, where the selection matters.
SelectionChange ==
    /\ script = "running"
    /\ highlighterShown
    /\ created < MaxCreates
    /\ \E r \in SelRanges(dom) \cup {NoSel, DocSel} : r # selection /\ selection' = r
    /\ UNCHANGED <<highlights, stored, dom, page, pageChanged, script,
                   highlighterShown, modalShown, currentHighlightId, now, created,
                   loadLog, other>>

\* the page is opened or reloaded, the article unchanged
Reload == PageLoad(page)

\* the page is reloaded after the site edited the article
ReloadEdited == \E pg \in (page + 1)..Len(Pages) : PageLoad(pg)

Next ==
    \/ Reload
    \/ MouseUp
    \/ \E t \in ClockReadings : CreateHighlight(t)
    \/ \E q \in AllPaths(dom) : MarkClick(q)
    \/ CloseModal
    \/ \E n \in Notes : SaveNote(n)
    \/ DeleteCurrentHighlight
    \/ \E id \in MessageIds : MsgDeleteHighlight(id)
    \/ \E id \in MessageIds, n \in Notes : MsgUpdateNote(id, n)

Spec == Init /\ [][Next]_vars

\* two tabs on the same page key, the first creating up to MaxTabCreates
\* highlights
NextTabs ==
    \/ Next /\ created' <= MaxTabCreates
    \/ OtherLoad
    \/ \E id \in MessageIds, n \in Notes : OtherUpdateNote(id, n)
    \/ \E id \in MessageIds : OtherDeleteHighlight(id)

SpecTabs == Init /\ [][NextTabs]_vars

\* every message the listener may receive
NextMessages == Next \/ \E request \in Requests : OnMessage(request)
SpecMessages == Init /\ [][NextMessages]_vars

\* the same with any initial content of the page key
SpecStored == InitStored /\ [][Next]_vars

\* the same with the article edited between page views
NextEdited == Next \/ ReloadEdited
SpecEdited == Init /\ [][NextEdited]_vars

\* the same with the selection changed from the keyboard
NextKeys == Next \/ SelectionChange
SpecKeys == Init /\ [][NextKeys]_vars

\* ------------------------------------------------------------------ properties
\* the element nodes of the document
ElementPaths(root) == {q \in AllPaths(root) : IsElem(NodeAt(root, q))}

\* the boundary points a span of the article can have: any offset of a text
\* node or of an element of the article
ContentPoints(root) == UNION {PointsOf(root, q) : q \in ContentPaths(root)}

\* every span of the article, collapsed ones included
ContentRanges(root) ==
    {r \in [s : ContentPoints(root), e : ContentPoints(root)] : PointLE(r.s, r.e)}

\* the records of hs carrying id
WithId(hs, id) == {i \in 1..Len(hs) : hs[i].id = id}

\* C1: write-through persistence. Once anything was written under the page
\* key, the stored value is the serialization of the in-memory collection
\* (same records, same order, same notes); before the first write the
\* collection is empty.
C1_WriteThrough ==
    /\ stored = Absent => highlights = JArray(<<>>)
    /\ stored # Absent => stored = Stringify(highlights)

\* C1 witness: two creations, a deletion and a note update have completed
C1_Witness ==
    /\ created = 2
    /\ Len(Hs) = 1
    /\ Hs[1].note = "check source"
    /\ stored = Stringify(highlights)

\* C2: on an unchanged page, a reload re-applies a marker for every record
\* of the collection, around that record's text.
C2_EveryAnchorResolves ==
    \A i \in DOMAIN loadLog :
        loadLog[i].how = "wrapped" /\ loadLog[i].cur = loadLog[i].text

\* the decoded value d is a span with the text of the span r (the same span
\* has the same text)
SameText(root, r, d) ==
    d.k = "range" /\ (d.r = r \/ RangeToString(root, d.r) = RangeToString(root, r))

\* the encoded form sr of the span r is not null and decodes to r's text
DecodesTo(root, r, sr) == ~sr.null /\ SameText(root, r, DeserializeRange(root, sr))

\* C3: codec round trip. For every span of the article, on the same document,
\* deserializeRange(serializeRange(span)) is a span with the same text.
C3_CodecRoundTrip ==
    \A r \in ContentRanges(dom) : DecodesTo(dom, r, SerializeRange(dom, r))

\* C3 witness: a selection that starts in one text node and ends in a later
\* one, which follows a marker, is encoded and decoded to a span
C3_Witness ==
    /\ highlighterShown
    /\ IsText(NodeAt(dom, selection.e.p))
    /\ Last(selection.e.p) > 1
    /\ selection.e.p # selection.s.p
    /\ MarksFor(dom, now) # {}
    /\ SerializeRange(dom, selection).endChildIndex > 0
    /\ DeserializeRange(dom, SerializeRange(dom, selection)).k = "range"

\* the step getXPathForElement must write for the element at path q: the tag,
\* and a position exactly when a sibling has the same tag
ExpectedStep(root, q) ==
    LET sibs == NodeAt(root, Parent(q)).ch
        same == {j \in 1..Len(sibs) : NodeName(sibs[j]) = NodeName(sibs[Last(q)])}
    IN [tag |-> NodeName(sibs[Last(q)]),
        n |-> IF same = {Last(q)} THEN 0
              ELSE 1 + Cardinality({j \in same : j < Last(q)})]

\* C4: path locator round trip. The path of every element resolves to that
\* element, so distinct elements have distinct paths; at every level the
\* position [n] is written exactly when the element has a same-tag sibling,
\* with n = 1 + the number of preceding same-tag siblings.
C4_PathRoundTrip ==
    \A q \in ElementPaths(dom) :
        /\ XPathEvaluate(dom, GetXPathForElement(dom, q)) = q
        /\ \A q2 \in ElementPaths(dom) :
              q2 # q => GetXPathForElement(dom, q2) # GetXPathForElement(dom, q)
        /\ Len(GetXPathForElement(dom, q)) = Len(q) + 1
        /\ \A k \in 1..Len(q) :
              GetXPathForElement(dom, q)[k + 1] = ExpectedStep(dom, SubSeq(q, 1, k))

\* C4 witness: two markers are siblings in one paragraph and the second one's
\* path, which carries the position 2, resolves to it
C4_Witness ==
    \E q \in ElementPaths(dom) :
        /\ Len(q) >= 1
        /\ NodeName(NodeAt(dom, q)) = "mark"
        /\ GetXPathForElement(dom, q)[Len(q) + 1].n = 2
        /\ XPathEvaluate(dom, GetXPathForElement(dom, q)) = q

\* C5: no two records of the collection have the same id.
C5_IdsUnique ==
    \A i, j \in 1..Len(Hs) : i # j => Hs[i].id # Hs[j].id

\* nothing of the annotation id is left: no record in the collection, none in
\* the stored collection, no marker in the document
Gone(id) ==
    /\ WithId(Hs, id) = {}
    /\ Parse(stored).ok
    /\ Parse(stored).value.k = "array"
    /\ WithId(Parse(stored).value.v, id) = {}
    /\ MarksFor(dom, id) = {}

\* C6: when deleteHighlight(id) completes, the collection and the stored
\* collection hold no record with that id and the document no marker with it.
C6_DeleteRemovesAll ==
    [][/\ \A id \in MessageIds : MsgDeleteHighlight(id) => Gone(id)'
       /\ \A id \in MessageIds :
             (DeleteCurrentHighlight /\ currentHighlightId = id) => Gone(id)'
      ]_vars

\* C7: a page view that finds an unparseable value under the page key ends
\* with an empty collection and with the listeners registered.
C7_CorruptLoadsEmpty ==
    (script # "none" /\ stored = Corrupt)
        => (script = "running" /\ highlights = JArray(<<>>))

\* the stored values that parse but are not an array of annotation records
Misshapen ==
    {JsonText(JObject), JsonText(JArray(<<EntryNoRange>>)),
     JsonText(JArray(<<EntryNoText>>))}

\* C8: a page view that finds a value of the wrong shape under the page key
\* ends with an empty collection and with the script running.
C8_MisshapenLoadsEmpty ==
    (script # "none" /\ stored \in Misshapen)
        => (script = "running" /\ highlights = JArray(<<>>))

RECURSIVE WrappedBefore(_, _, _)
\* the records among the first n of hs that the log says were wrapped
WrappedBefore(hs, log, n) ==
    IF n = 0 THEN <<>>
    ELSE WrappedBefore(hs, log, n - 1)
         \o (IF log[n].how = "wrapped" THEN <<hs[n]>> ELSE <<>>)

\* what a page view has to leave behind, given what was stored and which
\* article was served: every record kept as stored, a marker for exactly the
\* records that were wrapped, and each record treated as if the records that
\* failed before it were not there
LoadKeepsAll(st, hl, root, log, fresh) ==
    /\ hl = Parse(st).value
    /\ Len(log) = Len(hl.v)
    /\ \A i \in 1..Len(log) :
          /\ log[i].how = "wrapped" => MarksFor(root, hl.v[i].id) # {}
          /\ (\A j \in WithId(hl.v, hl.v[i].id) : log[j].how # "wrapped")
                => MarksFor(root, hl.v[i].id) = {}
          /\ ReapplyOne(ReapplyHighlights(fresh, WrappedBefore(hl.v, log, i - 1)).dom,
                        hl.v[i]).how = log[i].how
    /\ root = ReapplyHighlights(fresh, WrappedBefore(hl.v, log, Len(log))).dom

\* C9: a page view whose stored collection holds records that no longer
\* re-anchor writes nothing, keeps every record unchanged, places no marker
\* for the failing ones, and marks every other record whose anchor resolves,
\* wherever the failing ones stand in storage order.
C9_ReanchorFailureIsolated ==
    [][\A pg \in DOMAIN Pages :
          (PageLoad(pg) /\ stored # Absent) =>
              /\ stored' = stored
              /\ LoadKeepsAll(stored, highlights', dom', loadLog', Document(Pages[pg]))
      ]_vars

\* C9 witness: on the edited article the first stored record failed to
\* re-anchor and the second one was wrapped; both are still in the collection
\* and in storage
C9_Witness ==
    /\ page = 2
    /\ Len(loadLog) = 2
    /\ loadLog[1].how # "wrapped"
    /\ loadLog[2].how = "wrapped"
    /\ Len(Hs) = 2
    /\ MarksFor(dom, Hs[1].id) = {}
    /\ MarksFor(dom, Hs[2].id) # {}
    /\ stored = Stringify(highlights)

\* C10: the text inside every marker is contained in the text of an
\* annotation carrying the marker's id, whenever there is such an annotation.
C10_MarkerTextWithinAnnotation ==
    \A q \in ElementPaths(dom) :
        (NodeName(NodeAt(dom, q)) = "mark" /\ WithId(Hs, NodeAt(dom, q).hid) # {})
            => \E i \in WithId(Hs, NodeAt(dom, q).hid) :
                  Includes(Hs[i].text, TextContent(NodeAt(dom, q)))

\* the selection is empty or whitespace only
BlankSelection == Len(Trim(RangeToString(dom, selection))) = 0

\* the outcome o of a create leaves the collection, the stored value, the
\* document and the modal as they are
ChangesNothing(o) ==
    /\ ~o.done
    /\ o.highlights = highlights
    /\ o.stored = stored
    /\ o.dom = dom
    /\ o.modalShown = modalShown
    /\ o.currentHighlightId = currentHighlightId

\* C11: pressing the button with an empty or whitespace-only selection changes
\* nothing: the collection, the stored value and the document stay as they
\* are and no modal is opened.
C11_BlankCreateChangesNothing ==
    (script = "running" /\ highlighterShown /\ BlankSelection)
        => \A t \in ClockReadings : ChangesNothing(CreateOutcome(t))

\* C11 witness: the button is shown over a selection of one space, on a page
\* that already has a highlight
C11_Witness ==
    /\ script = "running"
    /\ highlighterShown
    /\ RangeToString(dom, selection) = <<WS>>
    /\ Len(Hs) = 1
    /\ MarksFor(dom, Hs[1].id) # {}

\* C12: when serializeRange returns null for a non-blank selection, create
\* shows the failure message and leaves the collection, the stored value and
\* the document as they are.
C12_EncodeFailureCreatesNothing ==
    (/\ script = "running"
     /\ highlighterShown
     /\ ~BlankSelection
     /\ SerializeRange(dom, selection).null)
        => \A t \in ClockReadings :
              /\ ChangesNothing(CreateOutcome(t))
              /\ CreateOutcome(t).alert = AlertFailed

\* C12 witness: the button is shown while the selection lies on the Document
\* node, which has no path, on a page that already has a highlight
C12_Witness ==
    /\ script = "running"
    /\ highlighterShown
    /\ selection = DocSel
    /\ SerializeRange(dom, selection).null
    /\ Len(Hs) = 1
    /\ MarksFor(dom, Hs[1].id) # {}

\* hs2 is hs with one record more at its end
AppendsOne(hs, hs2) == Len(hs2) = Len(hs) + 1 /\ SubSeq(hs2, 1, Len(hs)) = hs

\* the record rec carries id t, the text and an empty note; a mark for t in
\* root wraps the text; the stored value st parses to a collection ending in rec
CreatedAs(rec, t, text, root, st) ==
    /\ rec.id = t
    /\ rec.text = text
    /\ rec.note = ""
    /\ \E q \in MarksFor(root, t) : TextContent(NodeAt(root, q)) = text
    /\ Parse(st).ok
    /\ Parse(st).value.k = "array"
    /\ Len(Parse(st).value.v) > 0
    /\ Parse(st).value.v[Len(Parse(st).value.v)] = rec

\* C13: a create that succeeds appends exactly one record and leaves the
\* earlier records as they were, in their order; the new record holds the
\* selected text and an empty note, a mark carrying its id wraps that text in
\* the document, and the stored value contains the record.
C13_SuccessfulCreateAppends ==
    [][\A t \in ClockReadings :
          (CreateHighlight(t) /\ created' = created + 1)
             => /\ AppendsOne(Hs, highlights'.v)
                /\ CreatedAs(highlights'.v[Len(Hs) + 1], t,
                             RangeToString(dom, selection), dom', stored')]_vars

\* C13 witness: the second create has just appended a record whose text ends
\* or starts with whitespace to a collection of one
C13_Witness ==
    /\ created = 2
    /\ Len(Hs) = 2
    /\ modalShown
    /\ currentHighlightId = Hs[2].id
    /\ Hs[2].text # Trim(Hs[2].text)
    /\ Hs[2].note = ""
    /\ MarksFor(dom, Hs[2].id) # {}
    /\ stored = Stringify(highlights)

\* what updateNote(id, note) must leave: with a record named id, one such
\* record has the note and nothing else differs, and the stored value is the
\* collection; with none, the collection and the stored value are untouched
NoteUpdated(id, note, hs, st, hs2, st2) ==
    IF WithId(hs, id) # {}
    THEN /\ \E i \in WithId(hs, id) : hs2 = [hs EXCEPT ![i].note = note]
         /\ st2 = Stringify(JArray(hs2))
    ELSE hs2 = hs /\ st2 = st

\* C14: updateNote(id, note) sets the note of the record named id, changes no
\* other record and no other field, and stores the collection; for an id that
\* names no record it leaves the collection and the stored value unchanged.
\* It never touches the document.
C14_UpdateNote ==
    [][/\ \A id \in MessageIds, n \in Notes :
            MsgUpdateNote(id, n)
               => NoteUpdated(id, n, Hs, stored, highlights'.v, stored') /\ dom' = dom
       /\ \A n \in Notes :
            SaveNote(n)
               => NoteUpdated(currentHighlightId, n, Hs, stored, highlights'.v, stored')
                  /\ dom' = dom]_vars

\* C14 witness: of two records the second has been given a note, and the
\* stored value holds it
C14_Witness ==
    /\ Len(Hs) = 2
    /\ Hs[1].note = ""
    /\ Hs[2].note = "check source"
    /\ Hs[1].id # Hs[2].id
    /\ stored = Stringify(highlights)

\* C15: deleteHighlight(id) for an id that names no record leaves the
\* collection, the stored value (its absence included) and the document
\* exactly as they were.
C15_DeleteUnknownIsNoOp ==
    [][\A id \in MessageIds :
          (MsgDeleteHighlight(id) /\ WithId(Hs, id) = {})
             => UNCHANGED <<highlights, stored, dom>>]_vars

\* the ids of the records of a stored item, none when it holds no array
IdsIn(item) ==
    IF Parse(item).ok /\ Parse(item).value.k = "array"
    THEN {Parse(item).value.v[i].id : i \in 1..Len(Parse(item).value.v)}
    ELSE {}

\* the ids a message may carry that name a record of hs
WithIds(hs) == {id \in MessageIds : WithId(hs, id) # {}}

\* a step of the first tab that writes the page key
FirstTabWrites ==
    \/ created' = created + 1 /\ \E t \in ClockReadings : CreateHighlight(t)
    \/ /\ modalShown /\ ~modalShown'
       /\ \/ \E n \in Notes : SaveNote(n) /\ WithId(Hs, currentHighlightId) # {}
          \/ DeleteCurrentHighlight
    \/ /\ UNCHANGED <<other, modalShown, created, page, script, loadLog>>
       /\ \/ \E id \in MessageIds : MsgDeleteHighlight(id)
          \/ \E id \in WithIds(Hs), n \in Notes : MsgUpdateNote(id, n)

\* a step of the second tab that writes the page key
OtherTabWrites ==
    /\ other # NotOpen
    /\ UNCHANGED <<highlights, dom, selection, highlighterShown, modalShown>>
    /\ \/ \E id \in WithIds(other.highlights.v), n \in Notes : OtherUpdateNote(id, n)
       \/ \E id \in MessageIds : OtherDeleteHighlight(id)

\* C16: with two tabs on one page key the last writer wins. Every write of a
\* tab sets the stored value to exactly that tab's collection, whatever was
\* stored; a record the first tab stored after the second tab's load is
\* absent from the stored value after the second tab writes, and the first
\* tab's collection is not told.
C16_LastWriterWins ==
    [][/\ FirstTabWrites => stored' = Stringify(highlights') /\ other' = other
       /\ OtherTabWrites
            => /\ stored' = Stringify(other'.highlights)
               /\ highlights' = highlights
               /\ \A id \in IdsIn(stored) \ IdsIn(other.read) : id \notin IdsIn(stored')]_vars

\* C16 witness: the first tab holds a record it created after the second
\* tab's load; the second tab has written since, and the stored value is its
\* collection, without that record
C16_Witness ==
    /\ other # NotOpen
    /\ stored = Stringify(other.highlights)
    /\ stored # other.read
    /\ \E i \in 1..Len(Hs) :
          Hs[i].id \notin IdsIn(other.read) /\ Hs[i].id \notin IdsIn(stored)

\* where an activation of the button must end: a create that succeeded in
\* note editing for the new id t, one that failed in idle with the failure
\* shown to the user
ActivationEnds(o, t) ==
    IF o.done
    THEN o.modalShown /\ o.currentHighlightId = t /\ ~o.highlighterShown
    ELSE ~o.highlighterShown /\ ~o.modalShown /\ o.alert # NoAlert

\* C17: activating the highlighter button ends in note editing for the new
\* id (modal open on it, button hidden) when the create succeeds, and in idle
\* (button hidden, no modal) with the failure shown to the user when the
\* selection is blank or does not encode.
C17_ActivationOutcome ==
    (script = "running" /\ highlighterShown /\ ~modalShown)
        => \A t \in ClockReadings : ActivationEnds(CreateOutcome(t), t)

\* C18: a pointer release outside every mark and the modal with a selection
\* whose trimmed text is not empty shows the highlighter button; a release
\* with a blank selection, or inside a mark or the modal, hides it. No
\* release changes the collection, the stored value or the document.
C18_PointerRelease ==
    [][(/\ UNCHANGED <<modalShown, created, script>>
        /\ <<selection, highlighterShown>>' # <<selection, highlighterShown>>)
          => \A inside \in BOOLEAN, r \in SelRanges(dom) \cup {NoSel} :
                (script = "running" /\ HandleTextSelection(inside, r))
                   => /\ highlighterShown'
                           <=> (~inside /\ Len(Trim(RangeToString(dom, r))) > 0)
                      /\ UNCHANGED <<highlights, stored, dom>>]_vars

\* C18 witness: a release has shown the button over a selection that starts
\* or ends with whitespace, on a page that has a highlight
C18_Witness ==
    /\ highlighterShown
    /\ Len(Trim(RangeToString(dom, selection))) > 0
    /\ RangeToString(dom, selection) # Trim(RangeToString(dom, selection))
    /\ Len(Hs) = 1
    /\ MarksFor(dom, Hs[1].id) # {}

\* C19: the modal has three exits. Save runs updateNote on the modal's id
\* with the editor's content, Delete runs deleteHighlight on that id, Cancel
\* and a click on the backdrop change nothing; after each of them the modal is
\* closed and its current id cleared.
C19_ModalExits ==
    [][(modalShown /\ ~modalShown' /\ script' = script)
          => /\ \A n \in Notes :
                  SaveNote(n)
                     => /\ NoteUpdated(currentHighlightId, n, Hs, stored,
                                       highlights'.v, stored')
                        /\ dom' = dom
                        /\ currentHighlightId' = NoId
             /\ DeleteCurrentHighlight
                  => /\ highlights'.v = Filter(Hs, currentHighlightId)
                     /\ stored' = Stringify(highlights')
                     /\ dom' = RemoveMark(dom, currentHighlightId)
                     /\ currentHighlightId' = NoId
             /\ CloseModal
                  => /\ UNCHANGED <<highlights, stored, dom>>
                     /\ currentHighlightId' = NoId]_vars

\* C19 witness: the modal is closed and its id cleared, after a note was
\* saved on the first of two highlights and the second was deleted
C19_Witness ==
    /\ ~modalShown
    /\ currentHighlightId = NoId
    /\ created = 2
    /\ Len(Hs) = 1
    /\ Hs[1].note = "check source"
    /\ \A id \in MessageIds : id # Hs[1].id => MarksFor(dom, id) = {}
    /\ stored = Stringify(highlights)

\* the message leaves the collection, the stored value and the document alone
Untouched(o) == o.highlights = highlights /\ o.stored = stored /\ o.dom = dom

\* what the protocol asks of the outcome o of request
Answered(request, o) ==
    IF request.action = "getHighlights"
    THEN o.response = [highlights |-> highlights] /\ Untouched(o)
    ELSE IF request.action = "deleteHighlight"
    THEN /\ o.response = Success
         /\ WithId(o.highlights.v, request.highlightId) = {}
         /\ o.highlights.v = Filter(Hs, request.highlightId)
         /\ o.stored = Stringify(o.highlights)
    ELSE IF request.action = "updateNote"
    THEN /\ o.response = Success
         /\ NoteUpdated(request.highlightId, request.note, Hs, stored,
                        o.highlights.v, o.stored)
         /\ o.dom = dom
    ELSE Untouched(o)

\* C20: getHighlights is answered with the collection and changes nothing;
\* deleteHighlight and updateNote are answered with success: true, for an
\* unknown id too, the store operation done; goToHighlight, exportToPDF,
\* exportHighlightsOnly and an unrecognised action leave the collection, the
\* stored value and the document unchanged.
C20_MessagingProtocol ==
    script = "running"
        => \A request \in Requests : Answered(request, HandleMessages(request))

\* C20 witness: the modal is open on an id whose record a deleteHighlight
\* message has removed, so that every message about that id names no record
C20_Witness ==
    /\ script = "running"
    /\ modalShown
    /\ WithId(Hs, currentHighlightId) = {}
    /\ Len(Hs) = 1
    /\ stored = Stringify(highlights)

\* what the highlights-only export must give for the collection hs: a notice
\* and no window for an empty one, else one document with one block per
\* record, holding that record's text and note
ExportedAs(hs, e) ==
    IF hs = <<>>
    THEN e.alert # NoAlert /\ ~e.opened /\ e.document = <<>>
    ELSE /\ e.alert = NoAlert
         /\ e.opened
         /\ Len(e.document) = Len(hs)
         /\ \A i \in 1..Len(hs) :
               e.document[i].quote = hs[i].text /\ e.document[i].note = hs[i].note

\* C21: exportHighlightsOnly with an empty collection shows a notice, opens
\* no print window and writes no document; with a collection that is not
\* empty it writes one document that lists every record exactly once.
C21_ExportHighlightsOnly ==
    script = "running"
        => ExportedAs(Hs, HandleMessages(Request("exportHighlightsOnly", NoId, "")).export)

\* C21 witness: the only highlight has been created and deleted, the
\* collection is empty again and the export refuses
C21_Witness ==
    /\ script = "running"
    /\ created = 1
    /\ Hs = <<>>
    /\ stored = Stringify(highlights)
    /\ ExportHighlightsOnly(Hs).alert = AlertNoHighlights

\* the node a boundary must be set on: the indexed child, or the element
IndexedNode(parent, childIndex) ==
    IF childIndex > -1 THEN parent \o <<childIndex + 1>> ELSE parent

ChildMissing(root, parent, childIndex) ==
    childIndex > -1 /\ childIndex >= Len(NodeAt(root, parent).ch)

\* d is what decoding savedRange must give when its paths resolve to sp and ep
DecodedAs(root, savedRange, sp, ep, d) ==
    IF sp = NullPath \/ ep = NullPath THEN d.k = "null"
    ELSE IF \/ ChildMissing(root, sp, savedRange.startChildIndex)
            \/ ChildMissing(root, ep, savedRange.endChildIndex)
    THEN d.k = "null"
    ELSE /\ d.k # "null"
         /\ d.k = "range"
              => d.r = SetStartEnd(
                          Pt(IndexedNode(sp, savedRange.startChildIndex), savedRange.startOffset),
                          Pt(IndexedNode(ep, savedRange.endChildIndex), savedRange.endOffset))

\* the record's iteration of reapplyHighlights on root leaves root as it is
\* unless it wrapped the range
NothingApplied(root, one) == one.how \in {"null", "caught", "mismatch"} => one.dom = root

AllOrNothing(root, highlight) ==
    /\ DecodedAs(root, highlight.range,
                 XPathEvaluate(root, highlight.range.startXPath),
                 XPathEvaluate(root, highlight.range.endXPath),
                 DeserializeRange(root, highlight.range))
    /\ NothingApplied(root, ReapplyOne(root, highlight))

\* the documents a record is decoded against: the one shown, and each
\* version of the article as served
DecodeRoots == {dom} \cup {Document(Pages[pg]) : pg \in 1..Len(Pages)}

\* C22: deserializeRange returns null when a boundary path does not resolve
\* or a recorded child index is out of range in the resolved element;
\* otherwise each boundary is set on the indexed child, or on the element
\* itself for index -1. An iteration of the load whose decode returns null or
\* throws leaves the document as it was.
C22_DecodeAllOrNothing ==
    \A i \in 1..Len(Hs), root \in DecodeRoots :
        Hs[i].shape = "ok" => AllOrNothing(root, Hs[i])

\* C22 witness: the page was loaded with one record whose paths resolve and
\* whose child index is out of range; the decode gave null and the document
\* is the article as served
C22_Witness ==
    /\ script = "running"
    /\ Len(Hs) = 1
    /\ Len(loadLog) = 1
    /\ loadLog[1].how = "null"
    /\ dom = Document(Pages[page])
    /\ XPathEvaluate(dom, Hs[1].range.startXPath) # NullPath
    /\ XPathEvaluate(dom, Hs[1].range.endXPath) # NullPath
    /\ ChildMissing(dom, XPathEvaluate(dom, Hs[1].range.endXPath), Hs[1].range.endChildIndex)

\* no two text nodes side by side among the children of n, and none empty
NoSplitText(n) ==
    /\ \A i \in 1..Len(n.ch) : IsText(n.ch[i]) => n.ch[i].d # <<>>
    /\ \A i \in 1..(Len(n.ch) - 1) : ~(IsText(n.ch[i]) /\ IsText(n.ch[i + 1]))

\* the mark at mp is gone from root2: fewer marks carry the id, and the
\* children of its parent are merged
Unwrapped(root, root2, highlightId, mp) ==
    /\ Cardinality(MarksFor(root2, highlightId)) < Cardinality(MarksFor(root, highlightId))
    /\ NoSplitText(NodeAt(root2, Parent(mp)))

\* C23: wrapping a range in a mark, by surroundContents or by the fallback,
\* at create and at load, and removing a mark in deleteHighlight leave the
\* text content of the document as it was; a removal takes the mark away and
\* leaves no split or empty text nodes in its parent.
C23_TextPreserved ==
    [][/\ page' = page => TextContent(dom') = TextContent(dom)
       /\ (dom' # dom /\ created' = created /\ script' = script)
            => \A id \in MessageIds :
                  ((MsgDeleteHighlight(id) \/ (currentHighlightId = id /\ DeleteCurrentHighlight))
                      /\ MarksFor(dom, id) # {})
                     => Unwrapped(dom, dom', id, QueryMark(dom, id))]_vars

\* C23 witness: the second of two highlights, wrapped by the fallback (it took
\* the text out of the first mark, which stays empty), has been deleted; the
\* text of the page is that of the article
C23_Witness ==
    /\ created = 2
    /\ Len(Hs) = 1
    /\ \E q \in MarksFor(dom, Hs[1].id) : TextContent(NodeAt(dom, q)) = <<>>
    /\ TextContent(dom) = TextContent(Document(Pages[page]))
    /\ NoSplitText(NodeAt(dom, <<1, 1>>))

\* the fields of a record that are fixed at creation
Core(h) == [id |-> h.id, text |-> h.text, createdAt |-> h.createdAt, range |-> h.range]
Cores(hs) == [i \in 1..Len(hs) |-> Core(hs[i])]

\* from hs to hs2 no record changed a fixed field: hs2 is hs with one record
\* appended, or hs without the records of one id, or hs with notes changed
FixedFieldsKept(hs, hs2) ==
    IF Len(hs2) > Len(hs)
    THEN SubSeq(hs2, 1, Len(hs)) = hs /\ Len(hs2) = Len(hs) + 1
    ELSE IF Len(hs2) < Len(hs)
    THEN \E id \in MessageIds : hs2 = Filter(hs, id)
    ELSE Cores(hs2) = Cores(hs)

\* C24: the id, the text, the creation time and the anchor of a record never
\* change once it is in the collection, in memory or in the stored value,
\* whatever is done: note updates, deletions, modal actions, messages,
\* exports, reloads. Only the note changes, and only in updateNote.
C24_FixedFields ==
    [][/\ FixedFieldsKept(Hs, highlights'.v)
       /\ stored' # stored => stored' = Stringify(highlights')
       /\ (Len(highlights'.v) = Len(Hs) /\ highlights' # highlights)
            => \/ \E id \in MessageIds, n \in Notes : MsgUpdateNote(id, n)
               \/ \E n \in Notes : SaveNote(n)]_vars

\* C24 witness: after a reload with one record, the record left of two has
\* the fields it was created with and a note given later
C24_Witness ==
    /\ script = "running"
    /\ created = 2
    /\ Len(Hs) = 1
    /\ Len(loadLog) = 1
    /\ Hs[1].note = "check source"
    /\ Hs[1].createdAt = Hs[1].id
    /\ Hs[1].text = loadLog[1].text
    /\ stored = Stringify(highlights)

NonDecreasing(hs) ==
    \A i \in 1..Len(hs), j \in 1..Len(hs) : i < j => hs[i].createdAt <= hs[j].createdAt

\* C25: with a clock that does not go backwards the collection is in
\* non-decreasing createdAt order after any creates, note updates, deletions
\* and reloads, so that the highlights-only export, which follows the
\* collection, lists the records in the order the popup gets by sorting.
C25_StorageOrder ==
    script = "running"
        => /\ NonDecreasing(Hs)
           /\ ExportHighlightsOnly(Hs).document = ExportBlocks(SortByCreatedAt(Hs))

\* C25 witness: two records created at different times, the earlier one
\* first, after a note update and a reload
C25_Witness ==
    /\ script = "running"
    /\ Len(Hs) = 2
    /\ Len(loadLog) = 2
    /\ Hs[1].createdAt < Hs[2].createdAt
    /\ Hs[1].note = "check source"
    /\ ExportHighlightsOnly(Hs).document[1].quote = Hs[1].text

\* a step made with a handle on id: an updateNote or goToHighlight message,
\* Save or Delete in a modal open on id, a click on a mark of id
StaleStep(id) ==
    \/ \E n \in Notes : MsgUpdateNote(id, n)
    \/ OnMessage(Request("goToHighlight", id, ""))
    \/ /\ modalShown /\ currentHighlightId = id
       /\ (DeleteCurrentHighlight \/ \E n \in Notes : SaveNote(n))
    \/ \E q \in MarksFor(dom, id) : MarkClick(q)

\* C26: when the collection holds no record of an id (it was deleted, from
\* the modal or by message), no updateNote or goToHighlight message for the
\* id, no Save or Delete in a modal opened on it earlier and no click on a
\* mark puts a record of that id into the collection or the stored value; Save
\* in such a modal changes nothing.
C26_NoResurrection ==
    [][UNCHANGED <<created, script>>
          => \A id \in MessageIds :
                (WithId(Hs, id) = {} /\ StaleStep(id))
                   => /\ WithId(highlights'.v, id) = {}
                      /\ id \in IdsIn(stored') => id \in IdsIn(stored)
                      /\ (modalShown /\ currentHighlightId = id /\ \E n \in Notes : SaveNote(n))
                           => UNCHANGED <<highlights, stored, dom>>]_vars

\* C26 witness: the modal is still open on the id of the only highlight,
\* which a message has deleted; the collection, the stored value and the
\* document hold nothing of it
C26_Witness ==
    /\ script = "running"
    /\ modalShown
    /\ currentHighlightId \in MessageIds
    /\ created = 1
    /\ Hs = <<>>
    /\ currentHighlightId \notin IdsIn(stored)
    /\ MarksFor(dom, currentHighlightId) = {}

====
